---- MODULE Spec2Model ----
(***************************************************************************)
(* Model of the dprun crate (crates/dprun/src/lib.rs): the options builder, *)
(* the command line assembled by run(), and the futures returned by        *)
(* DPRun::start.  Strings are sequences of one-character strings, so that  *)
(* concatenation, formatting and equality of tokens are what the code      *)
(* computes.  Option<T> is a sequence of length 0 (None) or 1 (Some).      *)
(***************************************************************************)
EXTENDS Integers, Sequences, FiniteSets, TLC

\* ------------------------------------------------------------------------
\* Bounds of the model
\* ------------------------------------------------------------------------
\* longest address list the builder is driven to
MaxAddr == 2

\* ------------------------------------------------------------------------
\* Option<T>
\* ------------------------------------------------------------------------
None == <<>>
Some(v) == <<v>>
is_some(o) == Len(o) = 1
is_none(o) == Len(o) = 0
unwrap(o) == o[1]

\* ------------------------------------------------------------------------
\* Identifiers: a Uuid is its 16 bytes
\* ------------------------------------------------------------------------
\* B1ED2367-609B-4C5C-8755-D2A29BB9A554
GUID_DPRUNSP == <<177, 237, 35, 103, 96, 155, 76, 92, 135, 85, 210, 162, 155, 185, 165, 84>>
\* E4524541-8EA5-11D1-8A96-006097B01411
GUID_INETPORT == <<228, 82, 69, 65, 142, 165, 17, 209, 138, 150, 0, 96, 151, 176, 20, 17>>
\* 5BFDB060-06A4-11d0-9C4F-00A0C905425E (DPChat, from the crate's test)
dpchat == <<91, 253, 176, 96, 6, 164, 17, 208, 156, 79, 0, 160, 201, 5, 66, 94>>
\* 36E95EE0-8577-11cf-960c-0080c7534e82 (TCP/IP provider, from the crate's test)
tcpip == <<54, 233, 94, 224, 133, 119, 17, 207, 150, 12, 0, 128, 199, 83, 78, 130>>

HexUpperDigits == <<"0","1","2","3","4","5","6","7","8","9","A","B","C","D","E","F">>
HexLowerDigits == <<"0","1","2","3","4","5","6","7","8","9","a","b","c","d","e","f">>
DecDigits == <<"0","1","2","3","4","5","6","7","8","9">>

\* two upper-case hex digits of one byte
ByteUpper(b) == <<HexUpperDigits[(b \div 16) + 1], HexUpperDigits[(b % 16) + 1]>>

\* format!("{:02x}", c)
ByteLower(c) == <<HexLowerDigits[(c \div 16) + 1], HexLowerDigits[(c % 16) + 1]>>

RECURSIVE HexUpper(_)
HexUpper(bytes) ==
    IF bytes = <<>> THEN <<>> ELSE ByteUpper(Head(bytes)) \o HexUpper(Tail(bytes))

\* val.iter().map(|c| format!("{:02x}", c)).collect::<String>()
RECURSIVE HexLower(_)
HexLower(bytes) ==
    IF bytes = <<>> THEN <<>> ELSE ByteLower(Head(bytes)) \o HexLower(Tail(bytes))

\* encode_upper with lower-case digits (encode_lower)
encode_lower(uuid) ==
    HexLower(SubSeq(uuid, 1, 4)) \o <<"-">> \o HexLower(SubSeq(uuid, 5, 6)) \o <<"-">>
      \o HexLower(SubSeq(uuid, 7, 8)) \o <<"-">> \o HexLower(SubSeq(uuid, 9, 10)) \o <<"-">>
      \o HexLower(SubSeq(uuid, 11, 16))

\* uuid.to_hyphenated().encode_upper(..): groups of 4-2-2-2-6 bytes
encode_upper(uuid) ==
    HexUpper(SubSeq(uuid, 1, 4)) \o <<"-">> \o HexUpper(SubSeq(uuid, 5, 6)) \o <<"-">>
      \o HexUpper(SubSeq(uuid, 7, 8)) \o <<"-">> \o HexUpper(SubSeq(uuid, 9, 10)) \o <<"-">>
      \o HexUpper(SubSeq(uuid, 11, 16))

to_braced(uuid) == <<"{">> \o encode_upper(uuid) \o <<"}">>

\* format!("{}", n) of a natural number
RECURSIVE DecNat(_)
DecNat(n) ==
    IF n < 10 THEN <<DecDigits[n + 1]>> ELSE DecNat(n \div 10) \o <<DecDigits[(n % 10) + 1]>>

\* format!("{}", val) of an i32
Dec(val) == IF val < 0 THEN <<"-">> \o DecNat(0 - val) ELSE DecNat(val)

\* ------------------------------------------------------------------------
\* DPGUIDOrNamed and DPAddressValue
\* ------------------------------------------------------------------------
\* a variant carries its payload in the field of its type; the other fields are empty
GUID(uuid) == [tag |-> "GUID", uuid |-> uuid, name |-> <<>>]
Named(string) == [tag |-> "Named", uuid |-> <<>>, name |-> string]

\* derived PartialEq of DPGUIDOrNamed: same variant and same payload
DPEq(a, b) == a.tag = b.tag /\ a.uuid = b.uuid /\ a.name = b.name

into_string(g) == IF g.tag = "GUID" THEN to_braced(g.uuid) ELSE g.name

Number(val) == [tag |-> "Number", num |-> val, text |-> <<>>, bytes |-> <<>>]
String(val) == [tag |-> "String", num |-> 0, text |-> val, bytes |-> <<>>]
Binary(val) == [tag |-> "Binary", num |-> 0, text |-> <<>>, bytes |-> val]

DPAddressPart(data_type, value) == [data_type |-> data_type, value |-> value]

\* SessionType: Host(Option<Uuid>), Join(Uuid); id is None only for Host(None)
Host(session_id) == [tag |-> "Host", id |-> session_id]
Join(session_id) == [tag |-> "Join", id |-> Some(session_id)]

\* ------------------------------------------------------------------------
\* String literals of the source
\* ------------------------------------------------------------------------
S_wine == <<"w","i","n","e">>
S_dprun_exe == <<"d","p","r","u","n",".","e","x","e">>
S_host == <<"-","-","h","o","s","t">>
S_join == <<"-","-","j","o","i","n">>
S_player == <<"-","-","p","l","a","y","e","r">>
S_service_provider ==
    <<"-","-","s","e","r","v","i","c","e","-","p","r","o","v","i","d","e","r">>
S_application == <<"-","-","a","p","p","l","i","c","a","t","i","o","n">>
S_address == <<"-","-","a","d","d","r","e","s","s">>
S_session_name == <<"-","-","s","e","s","s","i","o","n","-","n","a","m","e">>
S_session_password ==
    <<"-","-","s","e","s","s","i","o","n","-","p","a","s","s","w","o","r","d">>
S_DPRUN == <<"D","P","R","U","N">>
S_INetPort == <<"I","N","e","t","P","o","r","t">>
S_exited == <<"d","p","r","u","n"," ","e","x","i","t","e","d"," ","w","i","t","h"," ",
              "s","t","a","t","u","s"," ">>

\* port of the host server when the address names none
DefaultPort == 2197

\* ------------------------------------------------------------------------
\* DPRunOptionsBuilder: the setters are functions from builder to builder
\* ------------------------------------------------------------------------
DefaultBuilder ==
    [session_type |-> None, player_name |-> None, service_provider |-> None,
     service_provider_handler |-> None, application |-> None, address |-> <<>>,
     session_name |-> None, session_password |-> None, cwd |-> None]

host(self, session_id) == [self EXCEPT !.session_type = Some(Host(session_id))]

\* join that keeps a session type chosen before
join_keep(self, session_id) ==
    IF is_some(self.session_type) THEN self
    ELSE [self EXCEPT !.session_type = Some(Join(session_id))]

join(self, session_id) == [self EXCEPT !.session_type = Some(Join(session_id))]

player_name(self, name) == [self EXCEPT !.player_name = Some(name)]

\* service_provider that keeps a provider chosen before
service_provider_keep(self, uuid) ==
    IF is_some(self.service_provider) THEN self
    ELSE [self EXCEPT !.service_provider = Some(GUID(uuid))]

service_provider(self, uuid) == [self EXCEPT !.service_provider = Some(GUID(uuid))]

named_service_provider(self, name) ==
    [self EXCEPT !.service_provider = Some(Named(name))]

\* service_provider_handler that enables the DPRUN provider in every case
service_provider_handler_always(self, handler) ==
    [named_service_provider(self, S_DPRUN) EXCEPT !.service_provider_handler = Some(handler)]

service_provider_handler(self, handler) ==
    LET chosen == IF is_none(self.service_provider)
                  THEN named_service_provider(self, S_DPRUN)
                  ELSE self
    IN  [chosen EXCEPT !.service_provider_handler = Some(handler)]

application(self, uuid) == [self EXCEPT !.application = Some(uuid)]

session_name(self, name) == [self EXCEPT !.session_name = Some(name)]

session_password(self, password) == [self EXCEPT !.session_password = Some(password)]

cwd(self, dir) == [self EXCEPT !.cwd = Some(dir)]

address_part(self, data_type, value) ==
    [self EXCEPT !.address = Append(@, DPAddressPart(GUID(data_type), value))]

\* named_address_part that puts the part in front of the list
named_address_part_front(self, data_type, value) ==
    [self EXCEPT !.address = <<DPAddressPart(Named(data_type), value)>> \o @]

named_address_part(self, data_type, value) ==
    [self EXCEPT !.address = Append(@, DPAddressPart(Named(data_type), value))]

\* RequiredMissing with an assertion on the session name too
RequiredMissing_session_name(self) ==
    \/ ~is_some(self.session_type)
    \/ ~is_some(self.player_name)
    \/ ~is_some(self.service_provider)
    \/ ~is_some(self.application)
    \/ ~is_some(self.session_name)

\* the first four assertions of finish()
RequiredMissing(self) ==
    \/ ~is_some(self.session_type)
    \/ ~is_some(self.player_name)
    \/ ~is_some(self.service_provider)
    \/ ~is_some(self.application)

\* IsDPRunProvider that compares with the GUID only
IsDPRunProvider_guid_only(self) ==
    /\ is_some(self.service_provider)
    /\ DPEq(unwrap(self.service_provider), GUID(GUID_DPRUNSP))

\* the condition of the if in finish(): the provider is the DPRun provider
IsDPRunProvider(self) ==
    /\ is_some(self.service_provider)
    /\ \/ DPEq(unwrap(self.service_provider), GUID(GUID_DPRUNSP))
       \/ DPEq(unwrap(self.service_provider), Named(S_DPRUN))

\* finish() panics: an assertion fails
finish_panics(self) ==
    \/ RequiredMissing(self)
    \/ IsDPRunProvider(self) /\ ~is_some(self.service_provider_handler)

\* the DPRunOptions finish() returns when no assertion fails
finish(self) ==
    [session_type |-> unwrap(self.session_type),
     player_name |-> unwrap(self.player_name),
     service_provider |-> unwrap(self.service_provider),
     service_provider_handler |-> self.service_provider_handler,
     application |-> unwrap(self.application),
     address |-> self.address,
     session_name |-> self.session_name,
     session_password |-> self.session_password,
     cwd |-> self.cwd]

\* ------------------------------------------------------------------------
\* run(): the command line and the host server port
\* ------------------------------------------------------------------------
\* Command::new(..) and the wine prefix
new_command(windows) ==
    IF windows THEN [program |-> S_dprun_exe, args |-> <<>>, cwd |-> None]
    ELSE [program |-> S_wine, args |-> <<S_dprun_exe>>, cwd |-> None]

\* session_type_args with --host emitted for Join too
session_type_args_always_host(session_type) ==
    IF is_some(session_type.id)
    THEN <<S_host, to_braced(unwrap(session_type.id))>>
    ELSE <<S_host>>

\* the match on options.session_type
session_type_args(session_type) ==
    IF session_type.tag = "Host"
    THEN IF is_some(session_type.id)
         THEN <<S_host, to_braced(unwrap(session_type.id))>>
         ELSE <<S_host>>
    ELSE <<S_join, to_braced(unwrap(session_type.id))>>

\* address_value with the bytes in upper-case digits
address_value_upper(value) ==
    CASE value.tag = "Number" -> <<"i", ":">> \o Dec(value.num)
      [] value.tag = "String" -> value.text
      [] value.tag = "Binary" -> <<"b", ":">> \o HexUpper(value.bytes)

\* the value of one address part as a string
address_value(value) ==
    CASE value.tag = "Number" -> <<"i", ":">> \o Dec(value.num)
      [] value.tag = "String" -> value.text
      [] value.tag = "Binary" -> <<"b", ":">> \o HexLower(value.bytes)

\* format!("{}={}", key, value)
address_token(part) ==
    into_string(part.data_type) \o <<"=">> \o address_value(part.value)

\* the for loop over options.address
RECURSIVE address_args(_)
address_args(address) ==
    IF address = <<>> THEN <<>>
    ELSE <<S_address, address_token(Head(address))>> \o address_args(Tail(address))

\* as_u16 that saturates instead of wrapping
as_u16_saturating(val) == IF val < 0 THEN 0 ELSE IF val > 65535 THEN 65535 ELSE val

\* val as u16
as_u16(val) == val % 65536

is_inet_port(part) ==
    \/ DPEq(part.data_type, GUID(GUID_INETPORT))
    \/ DPEq(part.data_type, Named(S_INetPort))

\* options.address.iter().find(..).and_then(..)
RECURSIVE find_port(_)
find_port(address) ==
    IF address = <<>> THEN None
    ELSE IF is_inet_port(Head(address))
         THEN IF Head(address).value.tag = "Number"
              THEN Some(as_u16(Head(address).value.num))
              ELSE Some(DefaultPort)
         ELSE find_port(Tail(address))

host_server_port(options) ==
    IF is_some(options.service_provider_handler) THEN find_port(options.address) ELSE None

\* command_args with the session name and password put before the address
command_args_name_first(options) ==
    session_type_args(options.session_type)
      \o <<S_player, options.player_name,
           S_service_provider, into_string(options.service_provider),
           S_application, to_braced(options.application)>>
      \o (IF is_some(options.session_name)
          THEN <<S_session_name, unwrap(options.session_name)>> ELSE <<>>)
      \o (IF is_some(options.session_password)
          THEN <<S_session_password, unwrap(options.session_password)>> ELSE <<>>)
      \o address_args(options.address)

\* command_args that names the DPRUN provider whenever a handler is registered
command_args_handler_provider(options) ==
    session_type_args(options.session_type)
      \o <<S_player, options.player_name,
           S_service_provider,
           IF is_some(options.service_provider_handler) THEN S_DPRUN
           ELSE into_string(options.service_provider),
           S_application, to_braced(options.application)>>
      \o address_args(options.address)
      \o (IF is_some(options.session_name)
          THEN <<S_session_name, unwrap(options.session_name)>> ELSE <<>>)
      \o (IF is_some(options.session_password)
          THEN <<S_session_password, unwrap(options.session_password)>> ELSE <<>>)

command_args(options) ==
    session_type_args(options.session_type)
      \o <<S_player, options.player_name,
           S_service_provider, into_string(options.service_provider),
           S_application, to_braced(options.application)>>
      \o address_args(options.address)
      \o (IF is_some(options.session_name)
          THEN <<S_session_name, unwrap(options.session_name)>> ELSE <<>>)
      \o (IF is_some(options.session_password)
          THEN <<S_session_password, unwrap(options.session_password)>> ELSE <<>>)

run(options, windows) ==
    LET command == new_command(windows) IN
    [command |-> [program |-> command.program,
                  args |-> command.args \o command_args(options),
                  cwd |-> options.cwd],
     host_server_port |-> host_server_port(options),
     service_provider |-> options.service_provider_handler]

\* ------------------------------------------------------------------------
\* Results of the futures
\* ------------------------------------------------------------------------
IOError(kind, msg) == [kind |-> kind, msg |-> msg]
Ok == [ok |-> TRUE, err |-> None]
Err(e) == [ok |-> FALSE, err |-> Some(e)]

\* ExitStatus::success(): the process exited with code 0
success(code) == is_some(code) /\ unwrap(code) = 0

\* code.unwrap_or(0)
unwrap_or_0(code) == IF is_some(code) THEN unwrap(code) ELSE 0

\* format!("dprun exited with status {}", n)
exit_message(n) == S_exited \o Dec(n)

\* the and_then closure on the child's exit status (both start functions)
exit_result(code) ==
    IF success(code) THEN Ok
    ELSE Err(IOError("Other", exit_message(unwrap_or_0(code))))

\* ------------------------------------------------------------------------
\* Inputs the model drives the program with
\* ------------------------------------------------------------------------
S_Test == <<"T","e","s","t">>
S_INet == <<"I","N","e","t">>
S_TCPIP == <<"T","C","P","I","P">>
SessionIds == {dpchat}
Players == {S_Test}
ProviderGuids == {tcpip, GUID_DPRUNSP}
ProviderNames == {S_DPRUN, S_TCPIP}
Applications == {dpchat}
SessionNames == {<<"x">>}
Passwords == {<<"p","w">>}
Dirs == {<<"d">>}
PartGuids == {GUID_INETPORT}
PartNames == {S_INet}
Values == {Number(-5), String(<<"i",":","-","5">>), Binary(<<10, 255>>)}
\* ExitStatus::code() of the exited process; None when killed by a signal
ExitCodes == {Some(0), Some(1), Some(3), None}
SpawnErrors == {IOError("NotFound", <<>>)}
ServerStartErrors == {IOError("AddrInUse", <<>>)}
ServerErrors == {IOError("BrokenPipe", <<>>)}

\* ------------------------------------------------------------------------
\* State
\* ------------------------------------------------------------------------
VARIABLES
    windows,      \* cfg!(target_os = "windows") of the build
    pc,           \* "builder", "options", "panicked", "dprun", "started"
    builder,      \* the DPRunOptionsBuilder (kept as finish() saw it)
    addr_calls,   \* history: the address_part / named_address_part calls
    last_calls,   \* history: the last host / join call and the last
                  \* service_provider / named_service_provider call
    options,      \* Option<DPRunOptions>
    dprun,        \* Option<DPRun>
    optionsB,     \* a second DPRunOptions, to compare encodings
    dprunB,       \* Option<DPRun> of optionsB
    state,        \* the future of start(): "NotStarted", "Joining" (Starting),
                  \* "WaitingChild" (Running), "WaitingServer" (Stopping),
                  \* "Done" (Terminated)
    server,       \* "none", "running", "start_failed", "done_ok", "done_err", "dropped"
    server_port,  \* Option<u16>: the port HostServer::new was given
    process,      \* "none", "spawn_failed", "running", "exited", "killed"
    exit_code,    \* ExitStatus::code() once the process has exited
    stops,        \* number of controller.stop() calls
    provisional,  \* Option<Result>: the result of the child's and_then closure
    result,       \* Option<Result>: what the future of start() resolved to
    start_error,  \* errors of server.start() and spawn_async()
    server_error, \* error the server future resolved with
    trace         \* history: the lifecycle events in order

buildVars == <<windows, pc, builder, addr_calls, last_calls, options, dprun>>
pairVars == <<optionsB, dprunB>>
lifeVars == <<state, server, server_port, process, exit_code, stops, provisional,
              result, start_error, server_error, trace>>
vars == <<buildVars, pairVars, lifeVars>>

LifeIdle ==
    /\ state = "NotStarted" /\ server = "none" /\ server_port = None
    /\ process = "none" /\ exit_code = None /\ stops = 0 /\ provisional = None
    /\ result = None /\ start_error = [server |-> None, child |-> None]
    /\ server_error = None /\ trace = <<>>

Init ==
    /\ windows \in BOOLEAN
    /\ pc = "builder"
    /\ builder = DefaultBuilder
    /\ addr_calls = <<>>
    /\ last_calls = [session_type |-> None, service_provider |-> None]
    /\ options = None
    /\ dprun = None
    /\ optionsB = None
    /\ dprunB = None
    /\ LifeIdle

\* ------------------------------------------------------------------------
\* Builder calls
\* ------------------------------------------------------------------------
Set(b) ==
    /\ pc = "builder"
    /\ builder' = b
    /\ UNCHANGED <<windows, pc, options, dprun, pairVars, lifeVars>>

CallHost ==
    \E session_id \in {None} \cup {Some(g) : g \in SessionIds} :
        /\ Set(host(builder, session_id))
        /\ last_calls' = [last_calls EXCEPT
                              !.session_type = Some([fn |-> "host", id |-> session_id])]
        /\ UNCHANGED addr_calls

CallJoin ==
    \E session_id \in SessionIds :
        /\ Set(join(builder, session_id))
        /\ last_calls' = [last_calls EXCEPT
                              !.session_type = Some([fn |-> "join", id |-> Some(session_id)])]
        /\ UNCHANGED addr_calls

CallPlayerName ==
    \E name \in Players : Set(player_name(builder, name)) /\ UNCHANGED <<addr_calls, last_calls>>

CallServiceProvider ==
    \E uuid \in ProviderGuids :
        /\ Set(service_provider(builder, uuid))
        /\ last_calls' = [last_calls EXCEPT
                              !.service_provider = Some([named |-> FALSE, uuid |-> uuid,
                                                         name |-> <<>>])]
        /\ UNCHANGED addr_calls

CallNamedServiceProvider ==
    \E name \in ProviderNames :
        /\ Set(named_service_provider(builder, name))
        /\ last_calls' = [last_calls EXCEPT
                              !.service_provider = Some([named |-> TRUE, uuid |-> <<>>,
                                                         name |-> name])]
        /\ UNCHANGED addr_calls

CallServiceProviderHandler ==
    Set(service_provider_handler(builder, "handler")) /\ UNCHANGED <<addr_calls, last_calls>>

CallApplication ==
    \E uuid \in Applications : Set(application(builder, uuid)) /\ UNCHANGED <<addr_calls, last_calls>>

CallSessionName ==
    \E name \in SessionNames : Set(session_name(builder, name)) /\ UNCHANGED <<addr_calls, last_calls>>

CallSessionPassword ==
    \E password \in Passwords :
        Set(session_password(builder, password)) /\ UNCHANGED <<addr_calls, last_calls>>

CallCwd ==
    \E dir \in Dirs : Set(cwd(builder, dir)) /\ UNCHANGED <<addr_calls, last_calls>>

CallAddressPart ==
    \E data_type \in PartGuids, value \in Values :
        /\ Len(builder.address) < MaxAddr
        /\ Set(address_part(builder, data_type, value))
        /\ addr_calls' = Append(addr_calls, [named |-> FALSE, key |-> data_type,
                                             value |-> value])
        /\ UNCHANGED last_calls

CallNamedAddressPart ==
    \E data_type \in PartNames, value \in Values :
        /\ Len(builder.address) < MaxAddr
        /\ Set(named_address_part(builder, data_type, value))
        /\ addr_calls' = Append(addr_calls, [named |-> TRUE, key |-> data_type,
                                             value |-> value])
        /\ UNCHANGED last_calls

\* finish(): an assertion fails and the call panics
FinishPanic ==
    /\ pc = "builder"
    /\ finish_panics(builder)
    /\ pc' = "panicked"
    /\ UNCHANGED <<windows, builder, addr_calls, last_calls, options, dprun, pairVars, lifeVars>>

\* finish(): the options are built
FinishOk ==
    /\ pc = "builder"
    /\ ~finish_panics(builder)
    /\ pc' = "options"
    /\ options' = Some(finish(builder))
    /\ UNCHANGED <<windows, builder, addr_calls, last_calls, dprun, pairVars, lifeVars>>

Finish == FinishPanic \/ FinishOk

Run ==
    /\ pc = "options"
    /\ pc' = "dprun"
    /\ dprun' = Some(run(unwrap(options), windows))
    /\ UNCHANGED <<windows, builder, addr_calls, last_calls, options, pairVars, lifeVars>>

Next ==
    \/ CallHost
    \/ CallJoin
    \/ CallPlayerName
    \/ CallServiceProvider
    \/ CallNamedServiceProvider
    \/ CallServiceProviderHandler
    \/ CallApplication
    \/ CallSessionName
    \/ CallSessionPassword
    \/ CallCwd
    \/ CallAddressPart
    \/ CallNamedAddressPart
    \/ Finish
    \/ Run

Spec == Init /\ [][Next]_vars

\* ------------------------------------------------------------------------
\* DPRun::start: the futures of start_without_server and start_with_server
\* A polled future is None while not ready and Some(result) once ready.
\* ------------------------------------------------------------------------
\* join_poll with the error of the second future swallowed
join_poll_swallow(a, b) ==
    IF is_some(a) /\ ~unwrap(a).ok THEN a
    ELSE IF is_some(a) /\ is_some(b) THEN Some(Ok)
    ELSE None

\* Future::join: the first error of either side is the result at once; the
\* result is Ok only when both sides are ready and Ok
join_poll(a, b) ==
    IF is_some(a) /\ ~unwrap(a).ok THEN a
    ELSE IF is_some(b) /\ ~unwrap(b).ok THEN b
    ELSE IF is_some(a) /\ is_some(b) THEN Some(Ok)
    ELSE None

\* start_result with the error of the call dropped
start_result_unchecked(e) == Some(Ok)

\* future::result(r): ready at once with r
start_result(e) == IF is_some(e) THEN Some(Err(unwrap(e))) ELSE Some(Ok)

\* the server future as the orchestrator polls it
server_poll ==
    CASE server = "done_ok" -> Some(Ok)
      [] server = "done_err" -> Some(Err(unwrap(server_error)))
      [] OTHER -> None

\* port.unwrap_or(2197)
unwrap_or_default(port) == IF is_some(port) THEN unwrap(port) ELSE DefaultPort

\* start() with a handler: HostServer::new, server.start(), spawn_async()
StartWithServer ==
    /\ pc = "dprun" /\ state = "NotStarted"
    /\ is_some(unwrap(dprun).service_provider)
    /\ \E se \in {None} \cup {Some(e) : e \in ServerStartErrors},
          ce \in {None} \cup {Some(e) : e \in SpawnErrors} :
        /\ server_port' = Some(unwrap_or_default(unwrap(dprun).host_server_port))
        /\ server' = IF is_some(se) THEN "start_failed" ELSE "running"
        /\ process' = IF is_some(ce) THEN "spawn_failed" ELSE "running"
        /\ start_error' = [server |-> se, child |-> ce]
        /\ trace' = trace \o <<IF is_some(se) THEN "server_start_failed" ELSE "server_start",
                               IF is_some(ce) THEN "spawn_failed" ELSE "spawn">>
    /\ pc' = "started"
    /\ state' = "Starting"
    /\ UNCHANGED <<windows, builder, addr_calls, last_calls, options, dprun, pairVars,
                   exit_code, stops, provisional, result, server_error>>

\* start() without a handler: spawn_async() only
StartWithoutServer ==
    /\ pc = "dprun" /\ state = "NotStarted"
    /\ ~is_some(unwrap(dprun).service_provider)
    /\ \E ce \in {None} \cup {Some(e) : e \in SpawnErrors} :
        /\ process' = IF is_some(ce) THEN "spawn_failed" ELSE "running"
        /\ start_error' = [server |-> None, child |-> ce]
        /\ trace' = Append(trace, IF is_some(ce) THEN "spawn_failed" ELSE "spawn")
    /\ pc' = "started"
    /\ state' = "Starting"
    /\ UNCHANGED <<windows, builder, addr_calls, last_calls, options, dprun, pairVars, server,
                   server_port, exit_code, stops, provisional, result, server_error>>

\* start() that takes the branch without the server whatever the handler
start_without_server_always ==
    /\ pc = "dprun" /\ state = "NotStarted"
    /\ \E ce \in {None} \cup {Some(e) : e \in SpawnErrors} :
        /\ process' = IF is_some(ce) THEN "spawn_failed" ELSE "running"
        /\ start_error' = [server |-> None, child |-> ce]
        /\ trace' = Append(trace, IF is_some(ce) THEN "spawn_failed" ELSE "spawn")
    /\ pc' = "started"
    /\ state' = "Starting"
    /\ UNCHANGED <<windows, builder, addr_calls, last_calls, options, dprun, pairVars,
                   server, server_port, exit_code, stops, provisional, result,
                   server_error>>

start == StartWithServer \/ StartWithoutServer

\* PollStartWithServer with controller.stop() called as soon as both have started
PollStartWithServer_StopEarly ==
    /\ state = "Starting" /\ server # "none"
    /\ LET joined == join_poll(start_result(start_error.server),
                               start_result(start_error.child)) IN
       IF unwrap(joined).ok
       THEN /\ state' = "Running"
            /\ stops' = stops + 1
            /\ trace' = Append(trace, "stop")
            /\ UNCHANGED <<result, server, process>>
       ELSE /\ state' = "Terminated"
            /\ result' = joined
            /\ server' = IF server = "running" THEN "dropped" ELSE server
            /\ process' = IF process = "running" THEN "killed" ELSE process
            /\ trace' = trace \o (IF process = "running" THEN <<"kill">> ELSE <<>>)
                               \o <<"terminated">>
            /\ UNCHANGED stops
    /\ UNCHANGED <<buildVars, pairVars, server_port, exit_code,
                   provisional, start_error, server_error>>

\* PollStartWithServer that stops a started server before it reports the
\* failure of the spawn
PollStartWithServer_Compensated ==
    /\ state = "Starting" /\ server # "none"
    /\ LET joined == join_poll(start_result(start_error.server),
                               start_result(start_error.child)) IN
       IF unwrap(joined).ok
       THEN /\ state' = "Running"
            /\ UNCHANGED <<result, server, process, trace, stops>>
       ELSE /\ state' = "Terminated"
            /\ result' = joined
            /\ server' = IF server = "running" THEN "dropped" ELSE server
            /\ stops' = IF server = "running" THEN stops + 1 ELSE stops
            /\ process' = IF process = "running" THEN "killed" ELSE process
            /\ trace' = trace \o (IF server = "running" THEN <<"stop">> ELSE <<>>)
                               \o (IF process = "running" THEN <<"kill">> ELSE <<>>)
                               \o <<"terminated">>
    /\ UNCHANGED <<buildVars, pairVars, server_port, exit_code,
                   provisional, start_error, server_error>>

\* first poll with a server: server_result.join(child_result).  On an error
\* the join drops both results: the server with its controller, and the
\* Child, whose drop (tokio_process) kills a process that is still running.
PollStartWithServer ==
    /\ state = "Starting" /\ server # "none"
    /\ LET joined == join_poll(start_result(start_error.server),
                               start_result(start_error.child)) IN
       IF unwrap(joined).ok
       THEN /\ state' = "Running"
            /\ UNCHANGED <<result, server, process, trace>>
       ELSE /\ state' = "Terminated"
            /\ result' = joined
            /\ server' = IF server = "running" THEN "dropped" ELSE server
            /\ process' = IF process = "running" THEN "killed" ELSE process
            /\ trace' = trace \o (IF process = "running" THEN <<"kill">> ELSE <<>>)
                               \o <<"terminated">>
    /\ UNCHANGED <<buildVars, pairVars, server_port, exit_code, stops,
                   provisional, start_error, server_error>>

\* first poll without a server: future::result(spawn_async()).flatten()
PollStartWithoutServer ==
    /\ state = "Starting" /\ server = "none"
    /\ IF is_some(start_error.child)
       THEN /\ state' = "Terminated"
            /\ result' = start_result(start_error.child)
            /\ trace' = Append(trace, "terminated")
       ELSE /\ state' = "Running"
            /\ UNCHANGED <<result, trace>>
    /\ UNCHANGED <<buildVars, pairVars, server, server_port, process, exit_code, stops,
                   provisional, start_error, server_error>>

\* the spawned process exits (or is killed: no code)
ProcessExit ==
    /\ process = "running"
    /\ \E code \in ExitCodes : exit_code' = code
    /\ process' = "exited"
    /\ trace' = Append(trace, "exit")
    /\ UNCHANGED <<buildVars, pairVars, state, server, server_port, stops, provisional,
                   result, start_error, server_error>>

\* the child future is ready: the and_then and then closures run, then the
\* join with the server future is polled
PollChildWithServer ==
    /\ state = "Running" /\ server # "none" /\ process = "exited"
    /\ provisional' = Some(exit_result(exit_code))
    /\ stops' = stops + 1
    /\ LET joined == join_poll(provisional', server_poll) IN
       IF is_some(joined)
       THEN /\ state' = "Terminated"
            /\ result' = joined
            /\ server' = IF server = "running" THEN "dropped" ELSE server
            /\ trace' = trace \o <<"stop", "terminated">>
       ELSE /\ state' = "Stopping"
            /\ trace' = Append(trace, "stop")
            /\ UNCHANGED <<result, server>>
    /\ UNCHANGED <<buildVars, pairVars, server_port, process, exit_code, start_error,
                   server_error>>

\* the child future is ready and there is no server
PollChildWithoutServer ==
    /\ state = "Running" /\ server = "none" /\ process = "exited"
    /\ provisional' = Some(exit_result(exit_code))
    /\ result' = provisional'
    /\ state' = "Terminated"
    /\ trace' = Append(trace, "terminated")
    /\ UNCHANGED <<buildVars, pairVars, server, server_port, process, exit_code, stops,
                   start_error, server_error>>

\* the host server completes, cleanly or not, once stop() has been signalled
ServerResolve ==
    /\ server = "running" /\ stops > 0
    /\ \/ server' = "done_ok" /\ UNCHANGED server_error
       \/ \E e \in ServerErrors : server' = "done_err" /\ server_error' = Some(e)
    /\ trace' = Append(trace, "server_done")
    /\ UNCHANGED <<buildVars, pairVars, state, server_port, process, exit_code, stops,
                   provisional, result, start_error>>

\* PollServer that signals the controller once more
PollServer_StopsAgain ==
    /\ state = "Stopping" /\ is_some(server_poll)
    /\ result' = join_poll(provisional, server_poll)
    /\ stops' = stops + 1
    /\ state' = "Terminated"
    /\ trace' = trace \o <<"stop", "terminated">>
    /\ UNCHANGED <<buildVars, pairVars, server, server_port, process, exit_code,
                   provisional, start_error, server_error>>

\* the server future is ready: .join(server).map(|_| ())
PollServer ==
    /\ state = "Stopping" /\ is_some(server_poll)
    /\ result' = join_poll(provisional, server_poll)
    /\ state' = "Terminated"
    /\ trace' = Append(trace, "terminated")
    /\ UNCHANGED <<buildVars, pairVars, server, server_port, process, exit_code, stops,
                   provisional, start_error, server_error>>

\* the address calls that build an address list
AddrCallsOf(address) ==
    [i \in 1..Len(address) |->
        [named |-> address[i].data_type.tag = "Named",
         key |-> IF address[i].data_type.tag = "Named"
                 THEN address[i].data_type.name ELSE address[i].data_type.uuid,
         value |-> address[i].value]]

\* the last mode call and the last provider call that build a builder
LastCallsOf(b) ==
    [session_type |->
        IF is_none(b.session_type) THEN None
        ELSE Some([fn |-> IF unwrap(b.session_type).tag = "Host" THEN "host" ELSE "join",
                   id |-> unwrap(b.session_type).id]),
     service_provider |->
        IF is_none(b.service_provider) THEN None
        ELSE Some([named |-> unwrap(b.service_provider).tag = "Named",
                   uuid |-> unwrap(b.service_provider).uuid,
                   name |-> unwrap(b.service_provider).name])]

\* the sequences over S of length at most n
SeqsUpTo(S, n) == UNION {[1..k -> S] : k \in 0..n}

\* a hosted session of the test's application over TCP/IP
BaseBuilder ==
    service_provider(application(player_name(host(DefaultBuilder, None), S_Test), dpchat),
                     tcpip)

\* address parts that name a port, as a number, a text or bytes, and one that
\* names none
LifeParts ==
    {DPAddressPart(GUID(GUID_INETPORT), Number(67733)),
     DPAddressPart(Named(S_INetPort), Number(-5)),
     DPAddressPart(Named(S_INetPort), String(<<"x">>)),
     DPAddressPart(GUID(GUID_INETPORT), Binary(<<10, 255>>)),
     DPAddressPart(Named(S_INet), Number(5))}

\* builders of the sessions the lifecycle is run for
LifeBuilders ==
    {BaseBuilder,
     join(BaseBuilder, dpchat),
     service_provider_handler(BaseBuilder, "handler"),
     service_provider_handler(player_name(application(host(DefaultBuilder, None), dpchat),
                                          S_Test), "handler"),
     service_provider_handler(address_part(BaseBuilder, GUID_INETPORT, Number(-5)),
                              "handler"),
     address_part(BaseBuilder, GUID_INETPORT, Number(67733))}
      \cup {[service_provider_handler(BaseBuilder, "handler") EXCEPT !.address = a] :
                a \in SeqsUpTo(LifeParts, MaxAddr)}

InitLife ==
    /\ windows \in BOOLEAN
    /\ pc = "dprun"
    /\ builder \in LifeBuilders
    /\ addr_calls = AddrCallsOf(builder.address)
    /\ last_calls = LastCallsOf(builder)
    /\ options = Some(finish(builder))
    /\ dprun = Some(run(finish(builder), windows))
    /\ optionsB = None
    /\ dprunB = None
    /\ LifeIdle

NextLife ==
    \/ start
    \/ PollStartWithServer
    \/ PollStartWithoutServer
    \/ ProcessExit
    \/ PollChildWithServer
    \/ PollChildWithoutServer
    \/ ServerResolve
    \/ PollServer

SpecLife == InitLife /\ [][NextLife]_vars

\* ------------------------------------------------------------------------
\* Properties of the lifecycle (SpecLife)
\* ------------------------------------------------------------------------
\* C1: with a server, controller.stop() is never called before the exit of the
\* spawned process: every "stop" of the trace has an "exit" before it.
C1_StopAfterExit ==
    \A i \in DOMAIN trace :
        trace[i] = "stop" => \E j \in 1..(i - 1) : trace[j] = "exit"

\* a run with a server in which the process failed and stop() was then called
C1_Witness ==
    /\ server # "none" /\ stops = 1 /\ process = "exited" /\ ~success(exit_code)
    /\ \E i \in DOMAIN trace : trace[i] = "stop"

C3_WaitsForServer ==
    (state = "Terminated" /\ stops > 0) => server \in {"done_ok", "done_err"}

\* the exit codes a failure message could name
NumericCodes == {0} \cup {unwrap(c) : c \in {x \in ExitCodes : is_some(x)}}

\* C7: the provisional result is success iff the exit code is 0; a nonzero
\* code c yields a failure naming c; no code yields a failure that names no
\* numeric code.
C7_ProvisionalResult ==
    is_some(provisional) =>
        LET r == unwrap(provisional) IN
        /\ r.ok <=> exit_code = Some(0)
        /\ (is_some(exit_code) /\ unwrap(exit_code) # 0)
              => (~r.ok /\ unwrap(r.err).msg = exit_message(unwrap(exit_code)))
        /\ exit_code = None
              => (~r.ok /\ \A c \in NumericCodes : unwrap(r.err).msg # exit_message(c))

\* C8: with a handler, Running is entered only if the server start and the
\* spawn both succeeded; if either failed the future resolves to that failure
\* without waiting for an exit, and never to success.
C8_StartFailure ==
    server # "none" =>
        LET failed == is_some(start_error.server) \/ is_some(start_error.child) IN
        /\ (state \in {"Running", "Stopping"} \/ is_some(provisional)) => ~failed
        /\ failed =>
            /\ state \in {"Starting", "Terminated"}
            /\ stops = 0
            /\ state = "Terminated" =>
                /\ is_some(result) /\ ~unwrap(result).ok
                /\ unwrap(result).err \in
                      {start_error.server, start_error.child} \ {None}

\* the server started, the spawn failed, and the spawn error is the result
C8_Witness ==
    /\ state = "Terminated" /\ server = "dropped" /\ process = "spawn_failed"
    /\ result = Some(Err(unwrap(start_error.child)))

\* ------------------------------------------------------------------------
\* Encoding two DPRunOptions (SpecEncode)
\* ------------------------------------------------------------------------
S_Test2 == <<"T","e","s","t","2">>
EncodeModes == {Host(None), Host(Some(dpchat)), Join(dpchat)}
\* a GUID, an alias spelled as that GUID, and a plain alias
EncodeProviders == {GUID(tcpip), Named(to_braced(tcpip)), Named(S_TCPIP)}
EncodeAddresses ==
    {<<>>,
     <<DPAddressPart(GUID(GUID_INETPORT), Number(-5))>>,
     <<DPAddressPart(GUID(GUID_INETPORT), String(<<"i",":","-","5">>))>>,
     <<DPAddressPart(Named(to_braced(GUID_INETPORT)), Number(-5))>>,
     <<DPAddressPart(Named(S_INet), Binary(<<10, 255>>))>>}
\* player name, application, session name, session password, handler, cwd
EncodeRest ==
    {<<S_Test, dpchat, None, None, None, None>>,
     <<S_Test2, dpchat, None, None, None, None>>,
     <<S_Test, tcpip, None, None, None, None>>,
     <<S_Test, dpchat, Some(<<"x">>), None, None, None>>,
     <<S_Test, dpchat, None, Some(<<"x">>), None, None>>,
     <<S_Test, dpchat, None, None, Some("handler"), None>>,
     <<S_Test, dpchat, None, None, None, Some(<<"d">>)>>}

EncodeBuilders ==
    {[session_type |-> Some(m), player_name |-> Some(r[1]), service_provider |-> Some(sp),
      service_provider_handler |-> r[5], application |-> Some(r[2]), address |-> a,
      session_name |-> r[3], session_password |-> r[4], cwd |-> r[6]] :
        m \in EncodeModes, sp \in EncodeProviders, a \in EncodeAddresses, r \in EncodeRest}

\* two finished options on a build for Wine
InitEncode ==
    /\ windows = FALSE
    /\ pc = "options"
    /\ builder \in {b \in EncodeBuilders : ~finish_panics(b)}
    /\ addr_calls = AddrCallsOf(builder.address)
    /\ last_calls = LastCallsOf(builder)
    /\ options = Some(finish(builder))
    /\ dprun = None
    /\ \E b \in EncodeBuilders : ~finish_panics(b) /\ optionsB = Some(finish(b))
    /\ dprunB = None
    /\ LifeIdle

\* run() on the second options
RunB ==
    /\ is_some(optionsB) /\ is_none(dprunB)
    /\ dprunB' = Some(run(unwrap(optionsB), windows))
    /\ UNCHANGED <<buildVars, optionsB, lifeVars>>

NextEncode ==
    \/ Run
    \/ RunB

SpecEncode == InitEncode /\ [][NextEncode]_vars

\* ------------------------------------------------------------------------
\* Properties of the builder and of run() (Spec, SpecEncode)
\* ------------------------------------------------------------------------
\* C4: the arguments after the program prefix are, in this order: the mode
\* tokens, --player, --service-provider, --application, one --address pair
\* per part, --session-name if set, --session-password if set; nothing else.
C4_GroupOrder ==
    pc = "dprun" =>
        LET o == unwrap(options)
            a == unwrap(dprun).command.args
            pre == IF windows THEN 0 ELSE 1
            m == IF o.session_type.tag = "Host" /\ is_none(o.session_type.id) THEN 1 ELSE 2
            base == pre + m
            n == Len(o.address)
            sn == IF is_some(o.session_name) THEN 2 ELSE 0
            pw == IF is_some(o.session_password) THEN 2 ELSE 0
        IN  /\ Len(a) = base + 6 + 2 * n + sn + pw
            /\ a[pre + 1] = IF o.session_type.tag = "Host" THEN S_host ELSE S_join
            /\ m = 2 => a[pre + 2] = to_braced(unwrap(o.session_type.id))
            /\ a[base + 1] = S_player /\ a[base + 2] = o.player_name
            /\ a[base + 3] = S_service_provider
            /\ a[base + 4] = into_string(o.service_provider)
            /\ a[base + 5] = S_application /\ a[base + 6] = to_braced(o.application)
            /\ \A i \in 1..n :
                /\ a[base + 6 + 2 * i - 1] = S_address
                /\ a[base + 6 + 2 * i] = address_token(o.address[i])
            /\ sn = 2 => /\ a[base + 6 + 2 * n + 1] = S_session_name
                         /\ a[base + 6 + 2 * n + 2] = unwrap(o.session_name)
            /\ pw = 2 => /\ a[base + 6 + 2 * n + sn + 1] = S_session_password
                         /\ a[base + 6 + 2 * n + sn + 2] = unwrap(o.session_password)

\* a command line with every group: a hosted session with an id, two address
\* parts, a session name and a password
C4_Witness ==
    /\ pc = "dprun"
    /\ unwrap(options).session_type = Host(Some(dpchat))
    /\ Len(unwrap(options).address) = 2
    /\ is_some(unwrap(options).session_name)
    /\ is_some(unwrap(options).session_password)

\* the provider the builder holds is the DPRun provider, by GUID or by alias
C5_Loopback ==
    /\ is_some(builder.service_provider)
    /\ unwrap(builder.service_provider) \in {GUID(GUID_DPRUNSP), Named(S_DPRUN)}

C5_AllSet ==
    /\ is_some(builder.session_type) /\ is_some(builder.player_name)
    /\ is_some(builder.service_provider) /\ is_some(builder.application)

\* C5: finish() fails when the provider is the DPRun provider (GUID or alias
\* "DPRUN") and no handler was registered; with every required field set and
\* a handler registered it succeeds and the options hold the provider selected.
C5_LoopbackNeedsHandler ==
    pc # "builder" =>
        /\ (C5_Loopback /\ is_none(builder.service_provider_handler)) => pc = "panicked"
        /\ (C5_AllSet /\ C5_Loopback /\ is_some(builder.service_provider_handler)) =>
            /\ pc # "panicked"
            /\ unwrap(options).service_provider = unwrap(builder.service_provider)
            /\ unwrap(options).service_provider \in {GUID(GUID_DPRUNSP), Named(S_DPRUN)}

\* finish() succeeded for the DPRun provider chosen by GUID, with a handler
C5_Witness ==
    /\ pc = "options"
    /\ builder.service_provider = Some(GUID(GUID_DPRUNSP))
    /\ is_some(builder.service_provider_handler)

\* C6: finish() fails if the mode, the player name, the provider or the
\* application was never set; it succeeds when the four are set and the
\* provider is not the DPRun provider without a handler; no other field is
\* required.
C6_RequiredFields ==
    pc # "builder" =>
        /\ (\E f \in {"session_type", "player_name", "service_provider", "application"} :
                builder[f] = None) => (pc = "panicked" /\ options = None)
        /\ ((\A f \in {"session_type", "player_name", "service_provider", "application"} :
                builder[f] # None)
            /\ ~(C5_Loopback /\ is_none(builder.service_provider_handler)))
              => (pc # "panicked" /\ is_some(options))

\* finish() succeeded with no optional field set
C6_Witness ==
    /\ pc = "options"
    /\ builder.session_name = None /\ builder.session_password = None
    /\ builder.cwd = None /\ builder.address = <<>>
    /\ builder.service_provider_handler = None

\* the tokens that follow each --address of an argument list, in order
RECURSIVE AddressTokensOf(_)
AddressTokensOf(a) ==
    IF Len(a) < 2 THEN <<>>
    ELSE IF Head(a) = S_address
         THEN <<a[2]>> \o AddressTokensOf(Tail(Tail(a)))
         ELSE AddressTokensOf(Tail(a))

\* the address part one call adds
PartOfCall(c) ==
    DPAddressPart(IF c.named THEN Named(c.key) ELSE GUID(c.key), c.value)

\* C10: the address list holds one part per address_part / named_address_part
\* call, in call order, and run() emits one --address pair per part in that
\* order.
C10_AddressOrder ==
    /\ builder.address = [i \in 1..Len(addr_calls) |-> PartOfCall(addr_calls[i])]
    /\ pc = "dprun" =>
        AddressTokensOf(unwrap(dprun).command.args)
            = [i \in 1..Len(addr_calls) |-> address_token(PartOfCall(addr_calls[i]))]

\* run() after an alias-keyed call followed by an identifier-keyed call
C10_Witness ==
    /\ pc = "dprun" /\ Len(addr_calls) = 2
    /\ addr_calls[1].named /\ ~addr_calls[2].named
    /\ addr_calls[1].value # addr_calls[2].value

\* the fields of the options that reach the command line
Inspected(o) ==
    [session_type |-> o.session_type, player_name |-> o.player_name,
     service_provider |-> o.service_provider, application |-> o.application,
     address |-> o.address, session_name |-> o.session_name,
     session_password |-> o.session_password]

\* C9 as stated: two options that differ in a field of the command line never
\* yield the same argument list.
C9_Injective ==
    (is_some(dprun) /\ is_some(dprunB)
        /\ unwrap(dprun).command.args = unwrap(dprunB).command.args)
        => Inspected(unwrap(options)) = Inspected(unwrap(optionsB))

StartsWith(str, prefix) ==
    Len(str) >= Len(prefix) /\ SubSeq(str, 1, Len(prefix)) = prefix

\* no alias reads as a braced GUID, no alias key holds "=", and no text value
\* reads as a typed value
Unambiguous(o) ==
    /\ o.service_provider.tag = "Named" => ~StartsWith(o.service_provider.name, <<"{">>)
    /\ \A i \in 1..Len(o.address) :
        /\ o.address[i].data_type.tag = "Named" =>
            /\ ~StartsWith(o.address[i].data_type.name, <<"{">>)
            /\ \A k \in 1..Len(o.address[i].data_type.name) :
                  o.address[i].data_type.name[k] # "="
        /\ o.address[i].value.tag = "String" =>
            /\ ~StartsWith(o.address[i].value.text, <<"i", ":">>)
            /\ ~StartsWith(o.address[i].value.text, <<"b", ":">>)

\* C9 amended: the encoding is injective on the options in which no alias
\* begins with "{", no alias key of an address part contains "=", and no text
\* value begins with "i:" or "b:".
C9_InjectiveUnambiguous ==
    (is_some(dprun) /\ is_some(dprunB)
        /\ Unambiguous(unwrap(options)) /\ Unambiguous(unwrap(optionsB))
        /\ unwrap(dprun).command.args = unwrap(dprunB).command.args)
        => Inspected(unwrap(options)) = Inspected(unwrap(optionsB))

\* two unambiguous options that differ in the kind of an address value and in
\* its key were both encoded, to different argument lists
C9_Witness ==
    /\ is_some(dprun) /\ is_some(dprunB)
    /\ unwrap(options).address = <<DPAddressPart(GUID(GUID_INETPORT), Number(-5))>>
    /\ unwrap(optionsB).address = <<DPAddressPart(Named(S_INet), Binary(<<10, 255>>))>>
    /\ Inspected([unwrap(options) EXCEPT !.address = <<>>])
          = Inspected([unwrap(optionsB) EXCEPT !.address = <<>>])
    /\ unwrap(dprun).command.args # unwrap(dprunB).command.args

\* the token that follows the first occurrence of a flag in an argument list
RECURSIVE TokenAfter(_, _)
TokenAfter(a, flag) ==
    IF Len(a) < 2 THEN None
    ELSE IF Head(a) = flag THEN Some(a[2]) ELSE TokenAfter(Tail(a), flag)

\* C11: after any calls of service_provider and named_service_provider the
\* provider of the builder is the value of the last of them, of its kind; it
\* is the value finish() validates and copies and run() emits after
\* --service-provider.
C11_LastProviderWins ==
    is_some(last_calls.service_provider) =>
        LET c == unwrap(last_calls.service_provider)
            v == IF c.named THEN Named(c.name) ELSE GUID(c.uuid)
        IN  /\ builder.service_provider = Some(v)
            /\ (pc # "builder" /\ is_none(builder.service_provider_handler)
                  /\ v \in {GUID(GUID_DPRUNSP), Named(S_DPRUN)}) => pc = "panicked"
            /\ pc \in {"options", "dprun"} => unwrap(options).service_provider = v
            /\ pc = "dprun" =>
                  TokenAfter(unwrap(dprun).command.args, S_service_provider)
                      = Some(IF c.named THEN c.name ELSE to_braced(c.uuid))

\* run() after the handler chose the DPRun alias and service_provider(tcpip)
\* replaced it
C11_Witness ==
    /\ pc = "dprun"
    /\ is_some(builder.service_provider_handler)
    /\ last_calls.service_provider = Some([named |-> FALSE, uuid |-> tcpip, name |-> <<>>])
    /\ unwrap(options).service_provider = GUID(tcpip)

ServerEvents == {"server_start", "server_start_failed", "stop", "server_done"}

\* C13: start() starts the host server if and only if a handler was
\* registered: without a handler only the process is spawned and no server is
\* started or stopped; with a handler the server is started and then the
\* process is spawned, whatever the provider.
C13_ServerIffHandler ==
    pc = "started" =>
        /\ server # "none" <=> is_some(builder.service_provider_handler)
        /\ is_none(builder.service_provider_handler) =>
            /\ server = "none" /\ server_port = None /\ stops = 0
            /\ \A i \in DOMAIN trace : trace[i] \notin ServerEvents
            /\ trace[1] \in {"spawn", "spawn_failed"}
        /\ is_some(builder.service_provider_handler) =>
            /\ trace[1] \in {"server_start", "server_start_failed"}
            /\ trace[2] \in {"spawn", "spawn_failed"}
            /\ is_some(server_port)

\* started with a handler and a provider that is not the DPRun provider
C13_Witness ==
    /\ pc = "started" /\ server = "running" /\ process = "running"
    /\ is_some(builder.service_provider_handler)
    /\ builder.service_provider = Some(GUID(tcpip))

\* "{5BFDB060-06A4-11D0-9C4F-00A0C905425E}", as the crate's test expects dpchat
S_dpchat_braced ==
    <<"{","5","B","F","D","B","0","6","0","-","0","6","A",
      "4","-","1","1","D","0","-","9","C","4","F","-","0",
      "0","A","0","C","9","0","5","4","2","5","E","}">>

\* C14: the mode tokens come first after the program prefix: --host and the
\* braced id for Host with an id, --host alone for Host without one, --join
\* and the braced id for Join; the mode is that of the last host / join call.
C14_ModeTokens ==
    is_some(last_calls.session_type) =>
        LET c == unwrap(last_calls.session_type) IN
        /\ builder.session_type =
              Some(IF c.fn = "host" THEN Host(c.id) ELSE Join(unwrap(c.id)))
        /\ pc = "dprun" =>
            LET a == unwrap(dprun).command.args
                pre == IF windows THEN 0 ELSE 1
            IN  /\ pre = 1 => a[1] = S_dprun_exe
                /\ a[pre + 1] = IF c.fn = "host" THEN S_host ELSE S_join
                /\ IF is_some(c.id)
                   THEN /\ a[pre + 2] = to_braced(unwrap(c.id))
                        /\ unwrap(c.id) = dpchat => a[pre + 2] = S_dpchat_braced
                        /\ a[pre + 3] = S_player
                   ELSE a[pre + 2] = S_player

\* run() on Wine after host(None) was the last mode call
C14_Witness ==
    /\ pc = "dprun" /\ ~windows
    /\ last_calls.session_type = Some([fn |-> "host", id |-> None])
    /\ Len(unwrap(dprun).command.args) >= 8

\* ------------------------------------------------------------------------
\* finish() and run() on a range of builders (SpecRun)
\* ------------------------------------------------------------------------
NilUuid == <<0, 0, 0, 0, 0, 0, 0, 0, 0, 0, 0, 0, 0, 0, 0, 0>>
MaxUuid == <<255, 255, 255, 255, 255, 255, 255, 255, 255, 255, 255, 255, 255, 255, 255, 255>>
RunGuids == {dpchat, tcpip, NilUuid, MaxUuid}
RunKeys == {GUID(GUID_INETPORT), Named(S_INetPort), Named(S_INet)}
\* i32 values up to the largest magnitude TLC's integers hold, texts and
\* byte strings
RunValues ==
    {Number(-5), Number(0), Number(2197), Number(67733), Number(-2147483647),
     String(<<"x">>), Binary(<<10, 255>>), Binary(<<>>)}
RunParts == {DPAddressPart(k, v) : k \in RunKeys, v \in RunValues}

\* the base session over every address, with and without a handler
RunAddressBuilders ==
    {[IF h THEN service_provider_handler(BaseBuilder, "handler") ELSE BaseBuilder
        EXCEPT !.address = a] :
        a \in SeqsUpTo(RunParts, MaxAddr), h \in BOOLEAN}

\* every mode, provider and application over the identifiers
RunGuidBuilders ==
    {[BaseBuilder EXCEPT !.session_type = Some(m), !.service_provider = Some(GUID(sp)),
                         !.application = Some(app), !.address = a] :
        m \in {Host(None)} \cup {Host(Some(g)) : g \in RunGuids}
                \cup {Join(g) : g \in RunGuids},
        sp \in RunGuids, app \in RunGuids,
        a \in {<<>>, <<DPAddressPart(GUID(GUID_INETPORT), String(<<"x">>))>>}}

\* builders finish() rejects
RunPanicBuilders == {DefaultBuilder, named_service_provider(BaseBuilder, S_DPRUN)}

RunBuilders == RunAddressBuilders \cup RunGuidBuilders \cup RunPanicBuilders

InitRun ==
    /\ windows \in BOOLEAN
    /\ pc = "builder"
    /\ builder \in RunBuilders
    /\ addr_calls = AddrCallsOf(builder.address)
    /\ last_calls = LastCallsOf(builder)
    /\ options = None
    /\ dprun = None
    /\ optionsB = None
    /\ dprunB = None
    /\ LifeIdle

NextRun ==
    \/ Finish
    \/ Run

SpecRun == InitRun /\ [][NextRun]_vars

\* the number a string of decimal digits denotes
DigitOf(ch) == CHOOSE k \in 0..9 : DecDigits[k + 1] = ch
RECURSIVE DecValue(_)
DecValue(d) ==
    IF d = <<>> THEN 0
    ELSE 10 * DecValue(SubSeq(d, 1, Len(d) - 1)) + DigitOf(d[Len(d)])

\* d is the decimal form of the natural number m, without leading zeros
IsDecimal(d, m) ==
    /\ Len(d) >= 1
    /\ \A k \in 1..Len(d) : \E j \in 1..10 : DecDigits[j] = d[k]
    /\ Len(d) > 1 => d[1] # "0"
    /\ DecValue(d) = m

\* d is the signed decimal form of n
IsSignedDecimal(d, n) ==
    IF n < 0 THEN Len(d) >= 2 /\ d[1] = "-" /\ IsDecimal(Tail(d), 0 - n)
    ELSE IsDecimal(d, n)

\* h is two lower-case hex digits per byte, no separators
IsLowerHex(h, bytes) ==
    /\ Len(h) = 2 * Len(bytes)
    /\ \A k \in 1..Len(bytes) :
        \E hi \in 0..15, lo \in 0..15 :
            /\ h[2 * k - 1] = HexLowerDigits[hi + 1]
            /\ h[2 * k] = HexLowerDigits[lo + 1]
            /\ 16 * hi + lo = bytes[k]

\* C15: an address part is the single token <key>=<prefix><value>: the key is
\* the braced identifier or the alias verbatim; an integer is "i:" and its
\* signed decimal form without leading zeros (-5 gives i:-5), bytes are "b:"
\* and two lower-case hex digits per byte ([0x0A,0xFF] gives b:0aff), a text
\* is verbatim with no prefix.
C15_AddressEncoding ==
    pc = "dprun" =>
        LET o == unwrap(options)
            toks == AddressTokensOf(unwrap(dprun).command.args)
        IN  /\ Len(toks) = Len(o.address)
            /\ \A i \in 1..Len(o.address) :
                LET part == o.address[i]
                    key == IF part.data_type.tag = "GUID"
                           THEN to_braced(part.data_type.uuid) ELSE part.data_type.name
                    tok == toks[i]
                    val == SubSeq(tok, Len(key) + 2, Len(tok))
                IN  /\ Len(tok) >= Len(key) + 1
                    /\ SubSeq(tok, 1, Len(key)) = key
                    /\ tok[Len(key) + 1] = "="
                    /\ part.value.tag = "Number" =>
                        /\ StartsWith(val, <<"i", ":">>)
                        /\ IsSignedDecimal(SubSeq(val, 3, Len(val)), part.value.num)
                        /\ part.value.num = -5 => val = <<"i", ":", "-", "5">>
                    /\ part.value.tag = "Binary" =>
                        /\ StartsWith(val, <<"b", ":">>)
                        /\ IsLowerHex(SubSeq(val, 3, Len(val)), part.value.bytes)
                        /\ part.value.bytes = <<10, 255>>
                              => val = <<"b", ":", "0", "a", "f", "f">>
                    /\ part.value.tag = "String" => val = part.value.text

\* run() on an alias-keyed integer part followed by an identifier-keyed byte part
C15_Witness ==
    /\ pc = "dprun"
    /\ unwrap(options).address =
          <<DPAddressPart(Named(S_INet), Number(-5)),
            DPAddressPart(GUID(GUID_INETPORT), Binary(<<10, 255>>))>>

UpperHexChars == {HexUpperDigits[k] : k \in 1..16}

\* the place in the braced string of the first digit of byte j (1-based)
BracedOffset(j) ==
    2 * j + (IF j > 4 THEN 1 ELSE 0) + (IF j > 6 THEN 1 ELSE 0)
          + (IF j > 8 THEN 1 ELSE 0) + (IF j > 10 THEN 1 ELSE 0)

\* t is uuid in braces: 38 characters, "{" first, "}" last, hyphens at the
\* 0-based places 9, 14, 19 and 24, upper-case hex digits of the bytes elsewhere
IsBraced(t, uuid) ==
    /\ Len(t) = 38
    /\ t[1] = "{" /\ t[38] = "}"
    /\ \A k \in 2..37 :
        IF k - 1 \in {9, 14, 19, 24} THEN t[k] = "-" ELSE t[k] \in UpperHexChars
    /\ Cardinality({k \in 1..38 : t[k] = "-"}) = 4
    /\ \A j \in 1..16 :
        /\ t[BracedOffset(j)] = HexUpperDigits[(uuid[j] \div 16) + 1]
        /\ t[BracedOffset(j) + 1] = HexUpperDigits[(uuid[j] % 16) + 1]

\* C16: every identifier on the command line (mode, provider, application,
\* address key) is 38 characters: "{", "}", hyphens at the 0-based places 9,
\* 14, 19, 24 and upper-case hex digits elsewhere.
C16_BracedFormat ==
    pc = "dprun" =>
        LET o == unwrap(options)
            a == unwrap(dprun).command.args
            pre == IF windows THEN 0 ELSE 1
            toks == AddressTokensOf(a)
        IN  /\ is_some(o.session_type.id) => IsBraced(a[pre + 2], unwrap(o.session_type.id))
            /\ o.service_provider.tag = "GUID" =>
                  IsBraced(unwrap(TokenAfter(a, S_service_provider)), o.service_provider.uuid)
            /\ IsBraced(unwrap(TokenAfter(a, S_application)), o.application)
            /\ \A i \in 1..Len(o.address) :
                  o.address[i].data_type.tag = "GUID" =>
                      /\ Len(toks[i]) >= 38
                      /\ IsBraced(SubSeq(toks[i], 1, 38), o.address[i].data_type.uuid)

\* run() with an identifier in each of the four places
C16_Witness ==
    /\ pc = "dprun"
    /\ unwrap(options).session_type = Join(MaxUuid)
    /\ unwrap(options).service_provider = GUID(NilUuid)
    /\ unwrap(options).application = tcpip
    /\ Len(unwrap(options).address) = 1

CountEvents(S) == Cardinality({i \in DOMAIN trace : trace[i] \in S})

\* C18: in one run the process is spawned at most once and stop() is called
\* at most once, and once the result is reported no step that spawns, starts
\* the server or stops it can be taken.
C18_TerminatedAbsorbing ==
    /\ CountEvents({"spawn", "spawn_failed"}) <= 1
    /\ CountEvents({"server_start", "server_start_failed"}) <= 1
    /\ stops <= 1 /\ CountEvents({"stop"}) = stops
    /\ state = "Terminated" =>
        /\ is_some(result)
        /\ trace[Len(trace)] = "terminated"
        /\ ~ENABLED (start \/ PollStartWithServer \/ PollStartWithoutServer
                       \/ PollChildWithServer \/ PollChildWithoutServer \/ PollServer)

\* the result was reported after the one spawn and the one stop
C18_Witness ==
    /\ state = "Terminated" /\ stops = 1 /\ server = "done_ok"
    /\ CountEvents({"spawn"}) = 1

\* C19 as stated: a server that started is not stopped when the spawn fails;
\* when the server start fails the spawn is still attempted and a spawned
\* process is neither waited for nor terminated before the failure is reported.
C19_NotCompensated ==
    (state = "Terminated" /\ server # "none"
        /\ (is_some(start_error.server) \/ is_some(start_error.child))) =>
        /\ (is_none(start_error.server) /\ is_some(start_error.child)) =>
              (stops = 0 /\ CountEvents({"stop"}) = 0)
        /\ is_some(start_error.server) =>
            /\ CountEvents({"spawn", "spawn_failed"}) = 1
            /\ is_none(start_error.child) =>
                /\ is_none(provisional)
                /\ process # "killed" /\ CountEvents({"kill"}) = 0

\* C19 amended: a server that started is not stopped when the spawn fails;
\* when the server start fails the spawn is still attempted and a spawned
\* process is not waited for: its handle is dropped as the failure is
\* reported, which kills the process if it is still running.
C19_NotCompensatedChildDropped ==
    (state = "Terminated" /\ server # "none"
        /\ (is_some(start_error.server) \/ is_some(start_error.child))) =>
        /\ (is_none(start_error.server) /\ is_some(start_error.child)) =>
              (stops = 0 /\ CountEvents({"stop"}) = 0 /\ server = "dropped")
        /\ is_some(start_error.server) =>
            /\ CountEvents({"spawn", "spawn_failed"}) = 1
            /\ is_none(start_error.child) =>
                /\ is_none(provisional)
                /\ process \in {"killed", "exited"}
                /\ process = "killed" <=> CountEvents({"exit"}) = 0
                /\ process = "killed" <=> CountEvents({"kill"}) = 1

\* the server did not start, the process was spawned, and the failure was
\* reported without an exit of the process
C19_Witness ==
    /\ state = "Terminated" /\ server = "start_failed"
    /\ is_none(start_error.child) /\ CountEvents({"exit"}) = 0
    /\ result = Some(Err(unwrap(start_error.server)))

\* the places of the address parts that name a port
PortParts(address) ==
    {i \in 1..Len(address) :
        \/ address[i].data_type = GUID(GUID_INETPORT)
        \/ address[i].data_type = Named(S_INetPort)}

\* C20: with a handler the port of the host server comes from the first part
\* keyed by the INetPort identifier or alias: an integer v gives v mod 2^16,
\* a text or bytes give 2197; with no such part it is 2197; later parts are
\* ignored; without a handler there is no port.
C20_ServerPort ==
    LET address == unwrap(options).address
        ports == PortParts(address)
        first == CHOOSE i \in ports : \A j \in ports : i <= j
        derived == unwrap(dprun).host_server_port
    IN  /\ is_none(builder.service_provider_handler) =>
              (derived = None /\ server_port = None)
        /\ is_some(builder.service_provider_handler) =>
            /\ ports = {} => derived = None
            /\ ports # {} =>
                /\ is_some(derived)
                /\ IF address[first].value.tag = "Number"
                   THEN /\ unwrap(derived) \in 0..65535
                        /\ (address[first].value.num - unwrap(derived)) % 65536 = 0
                        /\ address[first].value.num = 67733 => unwrap(derived) = 2197
                        /\ address[first].value.num = -5 => unwrap(derived) = 65531
                   ELSE unwrap(derived) = 2197
            /\ pc = "started" =>
                  server_port = IF ports = {} THEN Some(2197) ELSE derived

\* the server was started on the port of the first of two port parts
C20_Witness ==
    /\ pc = "started" /\ server = "running"
    /\ server_port = Some(65531)
    /\ Len(unwrap(options).address) = 2
    /\ unwrap(options).address[2] = DPAddressPart(GUID(GUID_INETPORT), Number(67733))
====
